---- MODULE Spec2Model ----
(***************************************************************************)
(* A model of bevy_spicy_ldtk: the run-time loader of src/src/lib.rs       *)
(* (World, Level, Layer, Tile, LayerDefinition, Tileset) and the           *)
(* generation-time code of src/derive/src/lib.rs (color_from_str,          *)
(* build_fields, build_layers).                                            *)
(*                                                                         *)
(* Every entry point is a function of a raw ldtk2 value.  The variable     *)
(* ldtk holds the raw value handed to the entry point, pc the position in  *)
(* it, result its outcome.  An outcome is a record with a tag:             *)
(*   "Ok"    the function returned Ok(value)                               *)
(*   "Err"   the function returned Err(error)                              *)
(*   "Panic" the function unwound (unwrap on None/Err, chunks(0), a slice  *)
(*           out of range): nothing is returned to the caller              *)
(***************************************************************************)
EXTENDS Integers, Sequences, FiniteSets, TLC

VARIABLES ldtk, pc, levels, tilesets, layer_definitions, result

vars == <<ldtk, pc, levels, tilesets, layer_definitions, result>>

(***************************************************************************)
(* Bounds of the model.                                                    *)
(***************************************************************************)
MaxWid == 2
MaxHei == 2
MaxCsvLen == 4
MaxTiles == 2
MaxTileId == 1
MaxEntities == 1

(***************************************************************************)
(* Outcomes.                                                               *)
(***************************************************************************)
None == [tag |-> "None"]

Some(v) == [tag |-> "Some", value |-> v]

Ok(v) == [tag |-> "Ok", value |-> v]

Err(e) == [tag |-> "Err", error |-> e]

Panic(why) == [tag |-> "Panic", why |-> why]

NotRun == [tag |-> "NotRun"]

\* a call-site error emitted by the generator: the expansion fails
CompileError(message) == [kind |-> "CompileError", arg |-> message]

UnknownLayerType_NoName(s) == [kind |-> "UnknownLayerType", arg |-> ""]

\* src/src/error.rs: the variants of LdtkError
UnknownLayerType(s) == [kind |-> "UnknownLayerType", arg |-> s]

UnknownEntityType(s) == [kind |-> "UnknownEntityType", arg |-> s]

MissingFieldsForEntities == [kind |-> "MissingFieldsForEntities", arg |-> ""]

MissingFieldsForLayers == [kind |-> "MissingFieldsForLayers", arg |-> ""]

MissingFieldsForLevels == [kind |-> "MissingFieldsForLevels", arg |-> ""]

Json == [kind |-> "Json", arg |-> ""]

LdtkErrorKinds ==
    {"Json", "MissingFieldsForEntities", "MissingFieldsForLayers",
     "MissingFieldsForLevels", "UnknownLayerType", "UnknownEntityType"}

(***************************************************************************)
(* Sequences.                                                              *)
(***************************************************************************)
SeqsUpTo(S, n) == UNION {[1..k -> S] : k \in 0..n}

RECURSIVE concat(_)
\* [[T]]::concat: the chunks joined in order
concat(ll) == IF ll = <<>> THEN <<>> ELSE Head(ll) \o concat(Tail(ll))

\* Vec::reverse
reverse(l) == [i \in 1..Len(l) |-> l[Len(l) + 1 - i]]

Min(a, b) == IF a < b THEN a ELSE b

\* slice::chunks(n), n > 0: consecutive slices of length n, the last one
\* shorter when n does not divide the length; it panics when n = 0
chunks(list, n) ==
    LET count == (Len(list) + n - 1) \div n
    IN [k \in 1..count |->
           SubSeq(list, (k - 1) * n + 1, Min(k * n, Len(list)))]

reverse_row_wise_no_reverse(list, row_length) == concat(chunks(list, row_length))

reverse_row_wise_exact(list, row_length) ==
    LET full == SubSeq(list, 1, (Len(list) \div row_length) * row_length)
    IN concat(reverse(chunks(full, row_length)))

reverse_row_wise_elements(list, row_length) == reverse(list)

\* fn reverse_row_wise (row_length > 0)
reverse_row_wise(list, row_length) == concat(reverse(chunks(list, row_length)))

(***************************************************************************)
(* Bits of a tile's flag field (i64, here 0..3).                           *)
(***************************************************************************)
BitAnd1(f) == f % 2

BitAnd2(f) == 2 * ((f \div 2) % 2)

TileLoad_RawPosition(tile, layer_dimensions_px) ==
    Ok([flip_x |-> BitAnd1(tile.f) = 1,
        flip_y |-> BitAnd2(tile.f) = 1,
        position_px |-> <<tile.px[1], tile.px[2]>>,
        src_px |-> <<tile.src[1], tile.src[2]>>,
        id |-> tile.t])

\* Tile::load(tile, layer_dimensions_px); it never fails
\* tile.f & 0x2 == 1 groups as (tile.f & 0x2) == 1
TileLoad(tile, layer_dimensions_px) ==
    Ok([flip_x |-> BitAnd1(tile.f) = 1,
        flip_y |-> BitAnd2(tile.f) = 1,
        position_px |-> <<tile.px[1], (0 - tile.px[2]) - layer_dimensions_px[2]>>,
        src_px |-> <<tile.src[1], tile.src[2]>>,
        id |-> tile.t])

\* derive build_layers, the closure over TileInstance { d, f, px, src, t }
BuildTile(tile) ==
    [flip_x |-> BitAnd1(tile.f) # 0,
     flip_y |-> BitAnd2(tile.f) # 0,
     position |-> <<tile.px[1], tile.px[2]>>,
     src |-> <<tile.src[1], tile.src[2]>>,
     id |-> tile.t]

\* tiles.iter().map(Tile::load).collect::<LdtkResult<Vec<_>>>() : the first
\* error, or all the tiles in order
RECURSIVE CollectTiles(_, _)
CollectTiles(tiles, dims_px) ==
    IF tiles = <<>> THEN Ok(<<>>)
    ELSE LET t == TileLoad(Head(tiles), dims_px)
         IN IF t.tag # "Ok" THEN t
            ELSE LET rest == CollectTiles(Tail(tiles), dims_px)
                 IN IF rest.tag # "Ok" THEN rest
                    ELSE Ok(<<t.value>> \o rest.value)

(***************************************************************************)
(* Raw values: ldtk2::TileInstance, ldtk2::EntityInstance,                 *)
(* ldtk2::LayerInstance.                                                   *)
(***************************************************************************)
TileFlags == 0..3

TilePxValues == {0, 8, 16}

LayerPxHeights == {0, 16}

TileInstances ==
    [f : TileFlags, px : {0, 8} \X TilePxValues, src : {<<0, 8>>}, t : {5}]

\* the tile instances used inside layers: told apart by their tile id
MkTile(t) == [f |-> t % 4, px |-> <<8 * t, 8 * t>>, src |-> <<8 * t, 0>>, t |-> t]

LayerTiles == {MkTile(t) : t \in 0..MaxTileId}

TileSeqs == SeqsUpTo(LayerTiles, MaxTiles)

IntGridValues == {0, 1}

IntGridCsvs == SeqsUpTo(IntGridValues, MaxCsvLen)

\* the entity identifiers the project defines, and one it does not
EntityDefs == {"Player"}

EntityIdentifiers == {"Player", "Ghost"}

EntityInstances == [identifier : EntityIdentifiers, fields_present : BOOLEAN]

EntitySeqs == SeqsUpTo(EntityInstances, MaxEntities)

KnownLayerKinds == {"IntGrid", "Entities", "Tiles", "AutoLayer"}

UnknownLayerKinds == {"", "intgrid", "Tile", "AutoLayers"}

OffsetValues == {0, 3}

TilesetUids == {None, Some(1), Some(7)}

LayerInstance(kind, w, h, oy, ts, def, csv, auto, grid, ents) ==
    [layer_instance_type |-> kind, c_wid |-> w, c_hei |-> h, grid_size |-> 8,
     opacity |-> 1, px_total_offset_x |-> 0, px_total_offset_y |-> oy,
     visible |-> TRUE, tileset_def_uid |-> ts, layer_def_uid |-> def,
     int_grid_csv |-> csv, auto_layer_tiles |-> auto, grid_tiles |-> grid,
     entity_instances |-> ents]

\* c_wid is an i64 of the document: the widths of the cases, a negative
\* one among them
Widths == (0 - 1)..MaxWid

LayerInstances ==
    {LayerInstance("IntGrid", w, h, oy, None, 1, csv, auto, <<>>, <<>>) :
        w \in Widths, h \in 0..MaxHei, oy \in OffsetValues,
        csv \in IntGridCsvs, auto \in TileSeqs}
    \cup
    {LayerInstance("Tiles", w, h, oy, ts, 1, <<>>, <<>>, grid, <<>>) :
        w \in Widths, h \in 0..MaxHei, oy \in OffsetValues,
        ts \in TilesetUids, grid \in TileSeqs}
    \cup
    {LayerInstance("AutoLayer", w, h, oy, None, 1, <<>>, auto, <<>>, <<>>) :
        w \in Widths, h \in 0..MaxHei, oy \in OffsetValues, auto \in TileSeqs}
    \cup
    {LayerInstance("Entities", w, h, oy, None, 1, <<>>, <<>>, <<>>, ents) :
        w \in Widths, h \in 0..MaxHei, oy \in OffsetValues, ents \in EntitySeqs}
    \cup
    {LayerInstance(kind, w, h, oy, None, 1, <<>>, <<>>, <<>>, <<>>) :
        kind \in UnknownLayerKinds, w \in Widths, h \in 0..MaxHei,
        oy \in OffsetValues}

(***************************************************************************)
(* Layer::load.                                                            *)
(***************************************************************************)
\* <Entities as DeserializeLdtkEntities>::deserialize_ldtk: the generated
\* implementation; the first entity that cannot be decoded ends it
RECURSIVE EntitiesDeserialize(_)
EntitiesDeserialize(instances) ==
    IF instances = <<>> THEN Ok(<<>>)
    ELSE LET e == Head(instances)
         IN IF e.identifier \notin EntityDefs
            THEN Err(UnknownEntityType(e.identifier))
            ELSE IF ~e.fields_present THEN Err(MissingFieldsForEntities)
            ELSE LET rest == EntitiesDeserialize(Tail(instances))
                 IN IF rest.tag # "Ok" THEN rest
                    ELSE Ok(<<e.identifier>> \o rest.value)

ChunksPanic == Panic("chunks: chunk size must be non-zero")

LayerOf(l, special) ==
    Ok([special |-> special,
        dimensions_cell |-> <<l.c_wid, l.c_hei>>,
        grid_size |-> l.grid_size,
        opacity |-> l.opacity,
        total_offset_px |->
            <<l.px_total_offset_x,
              (0 - l.px_total_offset_y) - l.c_hei * l.grid_size>>,
        visible |-> l.visible,
        tileset_uid |-> l.tileset_def_uid,
        layer_definition |-> l.layer_def_uid])

\* c_wid as usize, as the chunks of a list see it: a negative i64 becomes
\* 2^64 + c_wid, which is at least 2^63 and so more than the length of any
\* list; one more than the length of the list stands for it
as_usize(n, list) == IF n < 0 THEN Len(list) + 1 ELSE n

\* Layer::load(ldtk_layer)
LayerLoad(l) ==
    LET dims_px == <<l.c_wid * l.grid_size, l.c_hei * l.grid_size>>
    IN CASE l.layer_instance_type = "IntGrid" ->
              IF l.c_wid = 0 THEN ChunksPanic
              ELSE LET values == reverse_row_wise(l.int_grid_csv, as_usize(l.c_wid, l.int_grid_csv))
                       loaded == CollectTiles(l.auto_layer_tiles, dims_px)
                   IN IF loaded.tag # "Ok" THEN loaded
                      ELSE LayerOf(l, [kind |-> "IntGrid",
                                       values |-> values,
                                       auto_layer |->
                                           reverse_row_wise(loaded.value, as_usize(l.c_wid, loaded.value))])
         [] l.layer_instance_type = "Entities" ->
              LET entities == EntitiesDeserialize(l.entity_instances)
              IN IF entities.tag # "Ok" THEN entities
                 ELSE LayerOf(l, [kind |-> "Entities", entities |-> entities.value])
         [] l.layer_instance_type = "Tiles" ->
              LET loaded == CollectTiles(l.grid_tiles, dims_px)
              IN IF loaded.tag # "Ok" THEN loaded
                 ELSE IF l.c_wid = 0 THEN ChunksPanic
                 ELSE LayerOf(l, [kind |-> "Tiles",
                                  tileset |-> l.tileset_def_uid,
                                  tiles |-> reverse_row_wise(loaded.value, as_usize(l.c_wid, loaded.value))])
         [] l.layer_instance_type = "AutoLayer" ->
              LET loaded == CollectTiles(l.auto_layer_tiles, dims_px)
              IN IF loaded.tag # "Ok" THEN loaded
                 ELSE IF l.c_wid = 0 THEN ChunksPanic
                 ELSE LayerOf(l, [kind |-> "AutoLayer",
                                  auto_layer |->
                                      reverse_row_wise(loaded.value, as_usize(l.c_wid, loaded.value))])
         [] OTHER -> Err(UnknownLayerType(l.layer_instance_type))

(***************************************************************************)
(* Specification SpecLayer: Layer::load applied to one raw layer instance. *)
(***************************************************************************)
NoWorld ==
    /\ levels = <<>>
    /\ tilesets = <<>>
    /\ layer_definitions = <<>>

InitLayer ==
    /\ ldtk \in LayerInstances
    /\ pc = "Layer::load"
    /\ result = NotRun
    /\ NoWorld

LoadLayer ==
    /\ pc = "Layer::load"
    /\ result' = LayerLoad(ldtk)
    /\ pc' = "loaded"
    /\ UNCHANGED <<ldtk, levels, tilesets, layer_definitions>>

NextLayer == LoadLayer

SpecLayer == InitLayer /\ [][NextLayer]_vars

(***************************************************************************)
(* Specification SpecTile: one raw tile instance decoded by the run-time   *)
(* loader (Tile::load) or by the generator (build_layers).                 *)
(***************************************************************************)
InitTile ==
    /\ ldtk \in [tile : TileInstances, layer_dimensions_px : {16} \X LayerPxHeights]
    /\ pc = "Tile"
    /\ result = NotRun
    /\ NoWorld

LoadTile ==
    /\ pc = "Tile"
    /\ result' = TileLoad(ldtk.tile, ldtk.layer_dimensions_px)
    /\ pc' = "Tile::load"
    /\ UNCHANGED <<ldtk, levels, tilesets, layer_definitions>>

BuildLayersTile ==
    /\ pc = "Tile"
    /\ result' = Ok(BuildTile(ldtk.tile))
    /\ pc' = "build_layers"
    /\ UNCHANGED <<ldtk, levels, tilesets, layer_definitions>>

NextTile == LoadTile \/ BuildLayersTile

SpecTile == InitTile /\ [][NextTile]_vars

(***************************************************************************)
(* Colors.  A string is a sequence of one-character strings.               *)
(***************************************************************************)
DecDigits == <<"0", "1", "2", "3", "4", "5", "6", "7", "8", "9">>

HexLower == DecDigits \o <<"a", "b", "c", "d", "e", "f">>

HexUpper == DecDigits \o <<"A", "B", "C", "D", "E", "F">>

IsIn(c, digits) == \E i \in 1..Len(digits) : digits[i] = c

\* the value of a digit character in a digit string
ValueIn(c, digits) == (CHOOSE i \in 1..Len(digits) : digits[i] = c) - 1

IsHexDigit(c) == IsIn(c, HexLower) \/ IsIn(c, HexUpper)

HexValue(c) == IF IsIn(c, HexLower) THEN ValueIn(c, HexLower) ELSE ValueIn(c, HexUpper)

\* s[from..], Rust's byte slice of an ASCII string (from is 0-based); it
\* panics when from > len
StrFrom(s, from) == SubSeq(s, from + 1, Len(s))

\* bevy's Color::rgba_u8 of the bytes
Rgba(r, g, b, a) == [r |-> r, g |-> g, b |-> b, a |-> a]

HexByte(hi, lo) == 16 * HexValue(hi) + HexValue(lo)

\* bevy::prelude::Color::hex: 3, 4, 6 or 8 hex digits (a digit of the short
\* forms counts twice); any other length is HexColorError::Length, any other
\* character HexColorError::Hex
ColorHex(hex) ==
    IF Len(hex) \notin {3, 4, 6, 8} THEN Err([kind |-> "HexColorError", arg |-> "Length"])
    ELSE IF \E i \in 1..Len(hex) : ~IsHexDigit(hex[i])
    THEN Err([kind |-> "HexColorError", arg |-> "Hex"])
    ELSE CASE Len(hex) = 3 ->
                Ok(Rgba(HexByte(hex[1], hex[1]), HexByte(hex[2], hex[2]),
                        HexByte(hex[3], hex[3]), 255))
           [] Len(hex) = 4 ->
                Ok(Rgba(HexByte(hex[1], hex[1]), HexByte(hex[2], hex[2]),
                        HexByte(hex[3], hex[3]), HexByte(hex[4], hex[4])))
           [] Len(hex) = 6 ->
                Ok(Rgba(HexByte(hex[1], hex[2]), HexByte(hex[3], hex[4]),
                        HexByte(hex[5], hex[6]), 255))
           [] OTHER ->
                Ok(Rgba(HexByte(hex[1], hex[2]), HexByte(hex[3], hex[4]),
                        HexByte(hex[5], hex[6]), HexByte(hex[7], hex[8])))

\* Color::hex(&color[1..]).unwrap(), as Level::load and
\* LayerDefinition::load decode a color: the slice panics on an empty string
\* and unwrap panics on every HexColorError
ColorHexUnwrap(color) ==
    IF Len(color) < 1 THEN Panic("byte index 1 is out of bounds")
    ELSE LET c == ColorHex(StrFrom(color, 1))
         IN IF c.tag = "Ok" THEN c ELSE Panic("Result::unwrap on an Err value")

(***************************************************************************)
(* Raw values: ldtk2::Level, ldtk2::LayerDefinition,                       *)
(* ldtk2::TilesetDefinition, ldtk2::Ldtk.                                  *)
(***************************************************************************)
Red == <<"#", "f", "f", "0", "0", "0", "0">>

TooShort == <<"#", "f", "f", "0", "0", "0">>

WorldColors == {Red, TooShort}

\* one level field is declared by the project: not nullable
LevelFieldInstances == {<<[identifier |-> "difficulty", value |-> Some(3)]>>,
                        <<[identifier |-> "difficulty", value |-> None]>>}

WorldLayer(kind, def) ==
    LayerInstance(kind, 1, 1, 0, None, def,
                  IF kind = "IntGrid" THEN <<1>> ELSE <<>>, <<>>,
                  IF kind = "Tiles" THEN <<MkTile(0)>> ELSE <<>>, <<>>)

WorldLayerLists ==
    {<<WorldLayer("IntGrid", 1)>>, <<WorldLayer("Tiles", 1)>>,
     <<WorldLayer("Bogus", 1)>>, <<WorldLayer("IntGrid", 1), WorldLayer("Tiles", 2)>>}

RawLevels ==
    [field_instances : LevelFieldInstances,
     layer_instances : {None} \cup {Some(ll) : ll \in WorldLayerLists},
     bg_color : WorldColors,
     bg_pos : {None},
     bg_rel_path : {None},
     identifier : {"Level"},
     px_wid : {16}, px_hei : {8},
     uid : {0},
     world_x : {0}, world_y : {0}]

RawLayerDefs ==
    {[uid |-> 1, purple_type |-> "IntGrid",
      int_grid_values |-> <<[color |-> Red, identifier |-> None, value |-> 1]>>],
     [uid |-> 1, purple_type |-> "Tiles", int_grid_values |-> <<>>],
     [uid |-> 2, purple_type |-> "IntGrid",
      int_grid_values |-> <<[color |-> TooShort, identifier |-> None, value |-> 1]>>],
     [uid |-> 2, purple_type |-> "Tiles", int_grid_values |-> <<>>]}

RawLayerDefLists ==
    {<<>>} \cup {<<d>> : d \in RawLayerDefs}
    \cup {<<d, e>> : d \in {x \in RawLayerDefs : x.uid = 1},
                     e \in {x \in RawLayerDefs : x.purple_type = "Tiles"}}

RawTileset(uid, ident) ==
    [uid |-> uid, identifier |-> ident, tile_grid_size |-> 8, padding |-> 0,
     c_wid |-> 2, c_hei |-> 2, rel_path |-> "tiles.png"]

RawTilesetLists ==
    {<<>>, <<RawTileset(1, <<"A">>)>>, <<RawTileset(1, <<"A">>), RawTileset(1, <<"t", "r", "e", "e", "_", "t", "o", "p">>)>>,
     <<RawTileset(2, <<"B">>), RawTileset(1, <<"A">>)>>}

MaxLevels == 2

Documents ==
    [levels : SeqsUpTo(RawLevels, MaxLevels),
     defs : [layers : RawLayerDefLists, tilesets : RawTilesetLists]]

(***************************************************************************)
(* Level::load, Tileset::load, LayerDefinition::load.                      *)
(***************************************************************************)
\* <LevelFields as DeserializeLdtkFields>::deserialize_ldtk: the generated
\* implementation; the declared level fields are not nullable
FieldsDeserialize(instances) ==
    IF \E i \in 1..Len(instances) : instances[i].value = None
    THEN Err(MissingFieldsForLevels)
    ELSE Ok([i \in 1..Len(instances) |-> instances[i].value.value])

\* <Layers as DeserializeLDtkLayers>::deserialize_ldtk: the generated
\* implementation; Layer::load of every instance in order, ended by the
\* first one that fails
RECURSIVE LayersDeserialize(_)
LayersDeserialize(instances) ==
    IF instances = <<>> THEN Ok(<<>>)
    ELSE LET l == LayerLoad(Head(instances))
         IN IF l.tag # "Ok" THEN l
            ELSE LET rest == LayersDeserialize(Tail(instances))
                 IN IF rest.tag # "Ok" THEN rest
                    ELSE Ok(<<l.value>> \o rest.value)

LevelOf(ldtk_level, fields, layers, background_color) ==
    Ok([fields |-> fields,
        layers |-> layers,
        background_color |-> background_color,
        background_position_px |->
            IF ldtk_level.bg_pos = None THEN None
            ELSE Some(<<ldtk_level.bg_pos.value.top_left_px[1],
                        ldtk_level.bg_pos.value.top_left_px[1]>>),
        background_image_path |-> ldtk_level.bg_rel_path,
        identifier |-> ldtk_level.identifier,
        dimensions_px |-> <<ldtk_level.px_wid, ldtk_level.px_hei>>,
        id |-> ldtk_level.uid,
        world_position_px |->
            <<ldtk_level.world_x, (0 - ldtk_level.world_y) - ldtk_level.px_hei>>])

\* Level::load(ldtk_level)
LevelLoad(ldtk_level) ==
    LET fields == FieldsDeserialize(ldtk_level.field_instances)
    IN IF fields.tag # "Ok" THEN fields
       ELSE IF ldtk_level.layer_instances = None
       THEN Panic("Option::unwrap on a None value")
       ELSE LET layers == LayersDeserialize(ldtk_level.layer_instances.value)
            IN IF layers.tag # "Ok" THEN layers
               ELSE LET background_color == ColorHexUnwrap(ldtk_level.bg_color)
                    IN IF background_color.tag # "Ok" THEN background_color
                       ELSE LevelOf(ldtk_level, fields.value, layers.value,
                                    background_color.value)

\* Tileset::load(tileset); it never fails
TilesetLoad_GridSizeAsId(tileset) ==
    Ok([grid_size |-> tileset.tile_grid_size,
        ident |-> tileset.identifier,
        padding |-> tileset.padding,
        dimensions_cell |-> <<tileset.c_wid, tileset.c_hei>>,
        rel_path |-> tileset.rel_path,
        id |-> tileset.tile_grid_size])

\* Tileset::load(tileset)
TilesetLoad(tileset) ==
    Ok([grid_size |-> tileset.tile_grid_size,
        ident |-> tileset.identifier,
        padding |-> tileset.padding,
        dimensions_cell |-> <<tileset.c_wid, tileset.c_hei>>,
        rel_path |-> tileset.rel_path,
        id |-> tileset.uid])

\* the value definitions of an IntGrid layer definition: the first color
\* that does not decode unwinds
RECURSIVE ValueDefinitions(_)
ValueDefinitions(defs) ==
    IF defs = <<>> THEN Ok(<<>>)
    ELSE LET color == ColorHexUnwrap(Head(defs).color)
         IN IF color.tag # "Ok" THEN color
            ELSE LET rest == ValueDefinitions(Tail(defs))
                 IN IF rest.tag # "Ok" THEN rest
                    ELSE Ok(<<[color |-> color.value,
                               identifier |-> Head(defs).identifier,
                               value |-> Head(defs).value]>> \o rest.value)

\* LayerDefinition::load(layer_definition)
LayerDefinitionLoad(layer_definition) ==
    IF layer_definition.purple_type = "IntGrid"
    THEN LET value_definitions == ValueDefinitions(layer_definition.int_grid_values)
         IN IF value_definitions.tag # "Ok" THEN value_definitions
            ELSE Ok([id |-> layer_definition.uid,
                     special |-> [kind |-> "IntGrid",
                                  value_definitions |-> value_definitions.value]])
    ELSE Ok([id |-> layer_definition.uid,
             special |-> [kind |-> layer_definition.purple_type]])

\* HashMap::insert: a later entry of the same key replaces the earlier one
Insert(map, key, value) ==
    [k \in DOMAIN map \cup {key} |-> IF k = key THEN value ELSE map[k]]

\* defs.iter().map(|def| Ok((def.uid, load(def)?))).collect::<LdtkResult<HashMap>>()
RECURSIVE CollectLayerDefinitions(_, _)
CollectLayerDefinitions(defs, map) ==
    IF defs = <<>> THEN Ok(map)
    ELSE LET d == LayerDefinitionLoad(Head(defs))
         IN IF d.tag # "Ok" THEN d
            ELSE CollectLayerDefinitions(Tail(defs), Insert(map, Head(defs).uid, d.value))

RECURSIVE CollectTilesets(_, _)
CollectTilesets(defs, map) ==
    IF defs = <<>> THEN Ok(map)
    ELSE LET d == TilesetLoad(Head(defs))
         IN IF d.tag # "Ok" THEN d
            ELSE CollectTilesets(Tail(defs), Insert(map, Head(defs).uid, d.value))

(***************************************************************************)
(* Specification SpecWorld: World::deserialize_ldtk applied to a document. *)
(* pc names the collect in progress; LoadLevel is one turn of the first.   *)
(***************************************************************************)
InitWorld ==
    /\ ldtk \in Documents
    /\ pc = "levels"
    /\ levels = <<>>
    /\ tilesets = <<>>
    /\ layer_definitions = <<>>
    /\ result = NotRun

\* one Level::load of .map(Level::load).collect::<LdtkResult<_>>()?
LoadLevel ==
    /\ pc = "levels"
    /\ Len(levels) < Len(ldtk.levels)
    /\ LET level == LevelLoad(ldtk.levels[Len(levels) + 1])
       IN IF level.tag = "Ok"
          THEN /\ levels' = Append(levels, level.value)
               /\ UNCHANGED <<pc, result>>
          ELSE /\ result' = level
               /\ pc' = "returned"
               /\ UNCHANGED levels
    /\ UNCHANGED <<ldtk, tilesets, layer_definitions>>

LoadTilesets ==
    /\ pc = "levels"
    /\ Len(levels) = Len(ldtk.levels)
    /\ LET loaded == CollectTilesets(ldtk.defs.tilesets, <<>>)
       IN IF loaded.tag = "Ok"
          THEN /\ tilesets' = loaded.value
               /\ pc' = "layer_definitions"
               /\ UNCHANGED result
          ELSE /\ result' = loaded
               /\ pc' = "returned"
               /\ UNCHANGED tilesets
    /\ UNCHANGED <<ldtk, levels, layer_definitions>>

\* the last collect and the Ok(World { .. }) that ends the function
LoadLayerDefinitions ==
    /\ pc = "layer_definitions"
    /\ LET loaded == CollectLayerDefinitions(ldtk.defs.layers, <<>>)
       IN IF loaded.tag = "Ok"
          THEN /\ layer_definitions' = loaded.value
               /\ result' = Ok([levels |-> levels,
                                tilesets |-> tilesets,
                                layer_definitions |-> loaded.value])
          ELSE /\ result' = loaded
               /\ UNCHANGED layer_definitions
    /\ pc' = "returned"
    /\ UNCHANGED <<ldtk, levels, tilesets>>

NextWorld == LoadLevel \/ LoadTilesets \/ LoadLayerDefinitions

SpecWorld == InitWorld /\ [][NextWorld]_vars

(***************************************************************************)
(* The generator's color_from_str, and specification SpecColor: one color  *)
(* literal decoded by the generator (color_from_str) or by the run-time    *)
(* loader (Color::hex(&color[1..]).unwrap()).                              *)
(***************************************************************************)
\* the digit loop of str::parse::<u8>, left to right from digit i with the
\* value so far: at each character a non-digit is InvalidDigit, then a value
\* that no longer fits u8 after the multiplication or the addition is
\* PosOverflow; the first failing step decides
RECURSIVE ParseDigits(_, _, _)
ParseDigits(digits, i, value) ==
    IF i > Len(digits) THEN Ok(value)
    ELSE IF ~IsIn(digits[i], DecDigits)
    THEN Err([kind |-> "ParseIntError", arg |-> "InvalidDigit"])
    ELSE IF 10 * value + ValueIn(digits[i], DecDigits) > 255
    THEN Err([kind |-> "ParseIntError", arg |-> "PosOverflow"])
    ELSE ParseDigits(digits, i + 1, 10 * value + ValueIn(digits[i], DecDigits))

\* str::parse::<u8>: an optional "+" and then one or more decimal digits, of
\* a value up to 255; the empty string is the error Empty, a lone sign
\* InvalidDigit
ParseU8(s) ==
    LET digits == IF Len(s) > 0 /\ s[1] = "+" THEN Tail(s) ELSE s
    IN IF s = <<>>
       THEN Err([kind |-> "ParseIntError", arg |-> "Empty"])
       ELSE IF digits = <<>>
       THEN Err([kind |-> "ParseIntError", arg |-> "InvalidDigit"])
       ELSE ParseDigits(digits, 1, 0)

\* color_from_str(color): the slices color[1..3], color[3..5], color[5..7]
\* panic on a string shorter than 7; a part that does not parse emits the
\* compile error "Invalid color"
color_from_str(color) ==
    IF Len(color) < 7 THEN Panic("byte index out of range")
    ELSE LET r == ParseU8(SubSeq(color, 2, 3))
             g == ParseU8(SubSeq(color, 4, 5))
             b == ParseU8(SubSeq(color, 6, 7))
         IN IF r.tag = "Ok" /\ g.tag = "Ok" /\ b.tag = "Ok"
            THEN Ok(Rgba(r.value, g.value, b.value, 255))
            ELSE Err([kind |-> "CompileError", arg |-> "Invalid color"])

\* the digits of the literals checked
ColorDigits == {"0", "1", "9", "a", "F"}

WellFormedColors ==
    {<<"#", a, b, c, d, e, f>> :
        a \in ColorDigits, b \in ColorDigits, c \in ColorDigits,
        d \in ColorDigits, e \in ColorDigits, f \in ColorDigits}

MalformedColors ==
    {<<>>, <<"#">>, <<"#", "f", "f">>, TooShort,
     <<"#", "f", "f", "0", "0", "0", "0", "0">>,
     <<"#", "g", "g", "0", "0", "0", "0">>,
     <<"#", "1", "0", "2", "0", "3", "x">>,
     <<"#", "+", "1", "+", "2", "+", "3">>,
     <<"f", "f", "0", "0", "0", "0">>,
     <<"0", "1", "0", "2", "0", "3", "0">>}

InitColor ==
    /\ ldtk \in WellFormedColors \cup MalformedColors
    /\ pc = "color"
    /\ result = NotRun
    /\ NoWorld

ColorFromStr ==
    /\ pc = "color"
    /\ result' = color_from_str(ldtk)
    /\ pc' = "color_from_str"
    /\ UNCHANGED <<ldtk, levels, tilesets, layer_definitions>>

ColorHexLoad ==
    /\ pc = "color"
    /\ result' = ColorHexUnwrap(ldtk)
    /\ pc' = "Color::hex"
    /\ UNCHANGED <<ldtk, levels, tilesets, layer_definitions>>

NextColor == ColorFromStr \/ ColorHexLoad

SpecColor == InitColor /\ [][NextColor]_vars

(***************************************************************************)
(* The generator's build_fields, and specification SpecFields: one field   *)
(* instance, with the definition that declares it, decoded by              *)
(* build_fields.  A serde_json::Value is a record with its JSON type.      *)
(***************************************************************************)
JInt(n) == [json |-> "Int", int |-> n]

JFloat(n) == [json |-> "Float", float |-> n]

JString(chars) == [json |-> "String", str |-> chars]

JBool(b) == [json |-> "Bool", bool |-> b]

JArray(items) == [json |-> "Array", items |-> items]

\* serde_json::from_value::<T>(value): Some(the value) when the JSON value
\* deserializes as T ("i64", "f64", "String", "bool", "(i32, i32)")
FromValue(type, value) ==
    CASE type = "i64" -> IF value.json = "Int" THEN Some(value.int) ELSE None
      [] type = "f64" ->
           IF value.json = "Int" THEN Some(value.int)
           ELSE IF value.json = "Float" THEN Some(value.float) ELSE None
      [] type = "String" -> IF value.json = "String" THEN Some(value.str) ELSE None
      [] type = "bool" -> IF value.json = "Bool" THEN Some(value.bool) ELSE None
      [] OTHER ->
           IF /\ value.json = "Array"
              /\ Len(value.items) = 2
              /\ \A i \in 1..2 : value.items[i].json = "Int"
           THEN Some(<<value.items[1].int, value.items[2].int>>)
           ELSE None

\* the tokens emitted for a value
Tokens(shape, v) == [tokens |-> shape, v |-> v]

UnwrapPanic == Panic("Result::unwrap on an Err value")

\* Rust strings that the generator slices, tests with starts_with or
\* converts are sequences of one-character strings
starts_with(s, prefix) ==
    Len(s) >= Len(prefix) /\ SubSeq(s, 1, Len(prefix)) = prefix

KindInt == <<"I", "n", "t">>

KindFloat == <<"F", "l", "o", "a", "t">>

KindString == <<"S", "t", "r", "i", "n", "g">>

KindFilePath == <<"F", "i", "l", "e", "P", "a", "t", "h">>

KindBool == <<"B", "o", "o", "l">>

KindColor == <<"C", "o", "l", "o", "r">>

KindPoint == <<"P", "o", "i", "n", "t">>

KindEntityRef == <<"E", "n", "t", "i", "t", "y", "R", "e", "f">>

ArrayPrefix == <<"A", "r", "r", "a", "y", "<">>

LocalEnumPrefix == <<"L", "o", "c", "a", "l", "E", "n", "u", "m", ".">>

ArrayKind(kind) == ArrayPrefix \o kind \o <<">">>

LocalEnumKind(name) == LocalEnumPrefix \o name

\* heck 0.3 (traits CamelCase, SnakeCase) on identifiers made of ASCII
\* letters, digits and "_", which are one word of unicode_words
LowerLetters == <<"a", "b", "c", "d", "e", "f", "g", "h", "i", "j", "k", "l", "m", "n", "o", "p", "q", "r", "s", "t", "u", "v", "w", "x", "y", "z">>

UpperLetters == <<"A", "B", "C", "D", "E", "F", "G", "H", "I", "J", "K", "L", "M", "N", "O", "P", "Q", "R", "S", "T", "U", "V", "W", "X", "Y", "Z">>

IsLower(c) == IsIn(c, LowerLetters)

IsUpper(c) == IsIn(c, UpperLetters)

ToUpper(c) == IF IsLower(c) THEN UpperLetters[ValueIn(c, LowerLetters) + 1] ELSE c

ToLower(c) == IF IsUpper(c) THEN LowerLetters[ValueIn(c, UpperLetters) + 1] ELSE c

\* heck's transform, the loop over the characters of a word: i is the
\* character looked at, init the start of the current sub-word, mode the
\* case of the characters seen in it; the sub-words found, in order
RECURSIVE WordsFrom(_, _, _, _)
WordsFrom(word, i, init, mode) ==
    IF i > Len(word) THEN <<>>
    ELSE IF word[i] = "_"
    THEN WordsFrom(word, i + 1, IF init = i THEN init + 1 ELSE init, mode)
    ELSE IF i = Len(word) THEN <<SubSeq(word, init, Len(word))>>
    ELSE LET c == word[i]
             next == word[i + 1]
             next_mode == IF IsLower(c) THEN "Lowercase"
                          ELSE IF IsUpper(c) THEN "Uppercase" ELSE mode
         IN IF next = "_" \/ (next_mode = "Lowercase" /\ IsUpper(next))
            THEN <<SubSeq(word, init, i)>>
                   \o WordsFrom(word, i + 1, i + 1, "Boundary")
            ELSE IF mode = "Uppercase" /\ IsUpper(c) /\ IsLower(next)
            THEN <<SubSeq(word, init, i - 1)>>
                   \o WordsFrom(word, i + 1, i, "Boundary")
            ELSE WordsFrom(word, i + 1, init, next_mode)

lowercase(word) == [i \in 1..Len(word) |-> ToLower(word[i])]

capitalize(word) ==
    [i \in 1..Len(word) |-> IF i = 1 THEN ToUpper(word[i]) ELSE ToLower(word[i])]

RECURSIVE JoinSnake(_)
JoinSnake(words) ==
    IF words = <<>> THEN <<>>
    ELSE IF Len(words) = 1 THEN lowercase(words[1])
    ELSE lowercase(words[1]) \o <<"_">> \o JoinSnake(Tail(words))

to_snake_case(chars) == JoinSnake(WordsFrom(chars, 1, 1, "Boundary"))

to_camel_case(chars) ==
    LET words == WordsFrom(chars, 1, 1, "Boundary")
    IN concat([i \in 1..Len(words) |-> capitalize(words[i])])

\* format_ident!("{}", chars): Ident::new panics on a string that is no
\* identifier; of the strings heck returns, the empty one and those that
\* start with a digit
format_ident(chars) ==
    IF chars = <<>> \/ IsIn(chars[1], DecDigits)
    THEN Panic("Ident::new: not a valid identifier")
    ELSE Ok(chars)

\* build_fields, the value of one field instance: the match on
\* field.field_instance_type when a value is present, None otherwise
build_field_value(field_instance_type, value) ==
    IF value = None THEN Ok(Tokens("None", <<>>))
    ELSE LET json == value.value
             lit(type, shape) ==
                 LET parsed == FromValue(type, json)
                 IN IF parsed = None THEN UnwrapPanic
                    ELSE Ok(Tokens(shape, parsed.value))
         IN CASE field_instance_type = KindInt -> lit("i64", "i64")
              [] field_instance_type = KindFloat -> lit("f64", "f64")
              [] field_instance_type = KindString -> lit("String", "str")
              [] field_instance_type = KindFilePath -> lit("String", "str")
              [] field_instance_type = KindBool -> lit("bool", "bool")
              [] field_instance_type = KindColor ->
                   LET parsed == FromValue("String", json)
                   IN IF parsed = None THEN UnwrapPanic
                      ELSE LET color == color_from_str(parsed.value)
                           IN IF color.tag # "Ok" THEN color
                              ELSE Ok(Tokens("Color::rgb", color.value))
              [] field_instance_type = KindPoint -> lit("(i32, i32)", "const_ivec2")
              [] OTHER ->
                   IF starts_with(field_instance_type, LocalEnumPrefix)
                   THEN LET _local_enum ==
                                format_ident(to_camel_case(
                                    StrFrom(field_instance_type, Len(LocalEnumPrefix))))
                        IN IF _local_enum.tag # "Ok" THEN _local_enum
                           ELSE IF FromValue("i64", json) = None THEN UnwrapPanic
                           ELSE Ok(Tokens("", <<>>))
                   ELSE Err(CompileError("Could not parse kind"))

\* build_fields, one field instance: field_ident: value
build_field(field) ==
    LET field_ident == format_ident(to_snake_case(field.identifier))
    IN IF field_ident.tag # "Ok" THEN field_ident
       ELSE LET value == build_field_value(field.field_instance_type, field.value)
            IN IF value.tag # "Ok" THEN value
               ELSE Ok([field_ident |-> field_ident.value, value |-> value.value])

\* the enum definitions of the project: identifier and value ids
Item == <<"I", "t", "e", "m">>

Bow == <<"B", "o", "w">>

Orb == <<"o", "r", "b">>

Row == <<"R", "o", "w">>

EnumDefinitions == <<[identifier |-> Item, values |-> <<[id |-> Bow], [id |-> Orb]>>]>>

\* define_enums, one enum: pub enum ident { fields }
define_enum(def) ==
    LET ident == format_ident(to_camel_case(def.identifier))
        fields == [i \in 1..Len(def.values) |->
                      format_ident(to_camel_case(def.values[i].id))]
    IN IF ident.tag # "Ok" THEN ident
       ELSE IF \E i \in 1..Len(fields) : fields[i].tag # "Ok"
       THEN fields[CHOOSE i \in 1..Len(fields) :
                      /\ fields[i].tag # "Ok"
                      /\ \A j \in 1..(i - 1) : fields[j].tag = "Ok"]
       ELSE Ok([ident |-> ident.value,
                fields |-> [i \in 1..Len(fields) |-> fields[i].value]])

define_enums(enums) ==
    LET defined == [i \in 1..Len(enums) |-> define_enum(enums[i])]
    IN IF \E i \in 1..Len(defined) : defined[i].tag # "Ok"
       THEN defined[CHOOSE i \in 1..Len(defined) :
                       /\ defined[i].tag # "Ok"
                       /\ \A j \in 1..(i - 1) : defined[j].tag = "Ok"]
       ELSE Ok([i \in 1..Len(defined) |-> defined[i].value])

\* define_fields, the match on field_kind; a type is the sequence of its
\* constructors, outermost first, an enum type the path enums:: and the
\* characters of its name
define_field_kind(field_kind) ==
    CASE field_kind = KindInt -> Ok(<<"i64">>)
      [] field_kind = KindFloat -> Ok(<<"f64">>)
      [] field_kind = KindString -> Ok(<<"&'static str">>)
      [] field_kind = KindFilePath -> Ok(<<"&'static str">>)
      [] field_kind = KindBool -> Ok(<<"bool">>)
      [] field_kind = KindColor -> Ok(<<"::bevy::render::color::Color">>)
      [] field_kind = KindPoint -> Ok(<<"::bevy::math::Vec2">>)
      [] OTHER ->
           IF starts_with(field_kind, LocalEnumPrefix)
           THEN LET local_enum ==
                        format_ident(to_camel_case(
                            StrFrom(field_kind, Len(LocalEnumPrefix))))
                IN IF local_enum.tag # "Ok" THEN local_enum
                   ELSE Ok(<<"enums::">> \o local_enum.value)
           ELSE Err(CompileError("Could not parse kind"))

wrap_kind_option_first(kind, is_array, can_be_null) ==
    LET opt == IF can_be_null THEN <<"Option">> \o kind ELSE kind
    IN IF is_array THEN <<"&'static []">> \o opt ELSE opt

\* define_fields, the two wrappings of the base type
wrap_kind(kind, is_array, can_be_null) ==
    LET seq == IF is_array THEN <<"&'static []">> \o kind ELSE kind
    IN IF can_be_null THEN <<"Option">> \o seq ELSE seq

\* define_fields, one field definition: pub name: kind
define_field(field) ==
    LET type == field.field_definition_type
        is_array == starts_with(type, ArrayPrefix)
    IN IF is_array /\ Len(type) = Len(ArrayPrefix)
       THEN Panic("slice index starts at 6 but ends at 5")
       ELSE LET field_kind == IF is_array
                              THEN SubSeq(type, Len(ArrayPrefix) + 1, Len(type) - 1)
                              ELSE type
                name == format_ident(to_snake_case(field.identifier))
            IN IF name.tag # "Ok" THEN name
               ELSE LET base == define_field_kind(field_kind)
                    IN IF base.tag # "Ok" THEN base
                       ELSE Ok([name |-> name.value,
                                kind |-> wrap_kind(base.value, is_array,
                                                   field.can_be_null)])

BaseKinds ==
    {KindInt, KindFloat, KindString, KindFilePath, KindBool, KindColor, KindPoint,
     LocalEnumKind(Item), KindEntityRef}

FieldKinds ==
    BaseKinds \cup {ArrayKind(k) : k \in BaseKinds}
    \cup {ArrayPrefix, LocalEnumKind(Row), LocalEnumPrefix}

FieldValues ==
    {None, Some(JInt(3)), Some(JFloat(3)), Some(JString(<<"h", "i">>)),
     Some(JString(Red)), Some(JString(<<"#", "1", "0", "2", "0", "3", "0">>)),
     Some(JBool(TRUE)), Some(JArray(<<JInt(1), JInt(2)>>)),
     Some(JArray(<<JInt(1)>>)), Some(JString(Bow)), Some(JString(Orb)),
     Some(JString(Row))}

FieldIdentifiers == {<<"f">>, <<"M", "y", "F", "i", "e", "l", "d">>}

FieldCases ==
    {[def |-> [identifier |-> id, field_definition_type |-> kind, can_be_null |-> n],
      instance |-> [identifier |-> id, field_instance_type |-> kind, value |-> v]] :
        id \in FieldIdentifiers, kind \in FieldKinds, n \in BOOLEAN, v \in FieldValues}

InitFields ==
    /\ ldtk \in FieldCases
    /\ pc = "field"
    /\ result = NotRun
    /\ NoWorld

BuildFields ==
    /\ pc = "field"
    /\ result' = build_field(ldtk.instance)
    /\ pc' = "build_fields"
    /\ UNCHANGED <<ldtk, levels, tilesets, layer_definitions>>

DefineFields ==
    /\ pc = "field"
    /\ result' = define_field(ldtk.def)
    /\ pc' = "define_fields"
    /\ UNCHANGED <<ldtk, levels, tilesets, layer_definitions>>

NextFields == BuildFields \/ DefineFields

SpecFields == InitFields /\ [][NextFields]_vars

(***************************************************************************)
(* Specification SpecLevel: Level::load applied to one raw level whose     *)
(* positions, heights and offsets vary.                                    *)
(***************************************************************************)
\* a raw tile at pixel (x, y) with tile id t
PositionTile(x, y, t) == [f |-> 0, px |-> <<x, y>>, src |-> <<0, 0>>, t |-> t]

PositionTileLists ==
    {<<PositionTile(0, 0, 0)>>, <<PositionTile(8, 16, 0), PositionTile(0, 8, 1)>>}

\* the tile list Layer::load reads from a raw layer instance: the auto
\* tiles of an IntGrid or AutoLayer layer, the grid tiles of a Tiles layer
RawTiles(l) ==
    CASE l.layer_instance_type \in {"IntGrid", "AutoLayer"} -> l.auto_layer_tiles
      [] l.layer_instance_type = "Tiles" -> l.grid_tiles
      [] OTHER -> <<>>

PositionLayers ==
    {[LayerInstance(kind, 1, h, oy, None, 1,
                    IF kind = "IntGrid" THEN [i \in 1..h |-> 1] ELSE <<>>,
                    IF kind = "Tiles" THEN <<>> ELSE tiles,
                    IF kind = "Tiles" THEN tiles ELSE <<>>,
                    <<>>)
        EXCEPT !.grid_size = g, !.px_total_offset_x = ox] :
        kind \in {"IntGrid", "Tiles", "AutoLayer"}, h \in {1, 2}, oy \in {0, 3},
        ox \in {0, 2}, g \in {8, 16}, tiles \in PositionTileLists}

BackgroundPositions ==
    {None, Some([top_left_px |-> <<1, 2>>]), Some([top_left_px |-> <<4, 4>>])}

PositionLevels ==
    [field_instances : LevelFieldInstances,
     layer_instances : {Some(<<l>>) : l \in PositionLayers},
     bg_color : {Red},
     bg_pos : BackgroundPositions,
     bg_rel_path : {None},
     identifier : {"Level"},
     px_wid : {16}, px_hei : {8, 32},
     uid : {0},
     world_x : {0, 5}, world_y : {0 - 4, 0, 7}]

InitLevel ==
    /\ ldtk \in PositionLevels
    /\ pc = "Level::load"
    /\ result = NotRun
    /\ NoWorld

LoadOneLevel ==
    /\ pc = "Level::load"
    /\ result' = LevelLoad(ldtk)
    /\ pc' = "level loaded"
    /\ UNCHANGED <<ldtk, levels, tilesets, layer_definitions>>

NextLevel == LoadOneLevel

SpecLevel == InitLevel /\ [][NextLevel]_vars

(***************************************************************************)
(* The generator's build_layers, and specification SpecTileset: one raw    *)
(* layer instance and the document's tileset definitions, decoded by the   *)
(* run-time loader (Layer::load, and the tileset map of                    *)
(* World::deserialize_ldtk) or by the generator (build_layers).            *)
(***************************************************************************)
\* tilesets.iter().find(|set| Some(set.uid) == layer.tileset_def_uid)
RECURSIVE FindTileset(_, _)
FindTileset(defs, uid) ==
    IF defs = <<>> THEN None
    ELSE IF Some(Head(defs).uid) = uid THEN Some(Head(defs))
    ELSE FindTileset(Tail(defs), uid)

\* build_layers, the struct literal of one layer: layer_ident: layer_kind
\* { .. }; the two identifiers are the camel-cased layer identifier and the
\* same followed by Layer
LayerTokens(layer, layer_fields) ==
    LET layer_ident == format_ident(to_camel_case(layer.identifier))
        layer_kind ==
            format_ident(to_camel_case(layer.identifier)
                           \o <<"L", "a", "y", "e", "r">>)
    IN IF layer_ident.tag # "Ok" THEN layer_ident
       ELSE IF layer_kind.tag # "Ok" THEN layer_kind
       ELSE IF layer_fields.tag # "Ok" THEN layer_fields
       ELSE Ok([layer_ident |-> layer_ident.value,
                layer_kind |-> layer_kind.value,
                height |-> layer.c_hei,
                width |-> layer.c_wid,
                grid_size |-> layer.grid_size,
                opacity |-> layer.opacity,
                total_offset |-> <<layer.px_total_offset_x, layer.px_total_offset_y>>,
                visible |-> layer.visible,
                layer_fields |-> layer_fields.value])

build_layer_any_tileset(layer, tileset_defs) ==
    CASE layer.layer_instance_type = "IntGrid" ->
           LayerTokens(layer, Ok([kind |-> "IntGrid", values |-> layer.int_grid_csv]))
      [] layer.layer_instance_type = "Entities" ->
           LayerTokens(layer, Ok([kind |-> "Entities"]))
      [] layer.layer_instance_type = "Tiles" ->
           LayerTokens(layer,
                       Ok([kind |-> "Tiles",
                           tileset |-> <<>>,
                           tiles |-> [i \in 1..Len(layer.grid_tiles) |->
                                         BuildTile(layer.grid_tiles[i])]]))
      [] layer.layer_instance_type = "AutoLayer" ->
           LayerTokens(layer, Ok([kind |-> "AutoLayer"]))
      [] OTHER -> LayerTokens(layer, Err(CompileError("Unknown layer kind")))

\* build_layers, the closure over one layer instance; an emitted call-site
\* error makes the expansion fail
build_layer(layer, tileset_defs) ==
    CASE layer.layer_instance_type = "IntGrid" ->
           LayerTokens(layer, Ok([kind |-> "IntGrid", values |-> layer.int_grid_csv]))
      [] layer.layer_instance_type = "Entities" ->
           LayerTokens(layer, Ok([kind |-> "Entities"]))
      [] layer.layer_instance_type = "Tiles" ->
           LET tileset == FindTileset(tileset_defs, layer.tileset_def_uid)
               ident == IF tileset = None
                        THEN Err(CompileError("Could not find tileset for layer"))
                        ELSE format_ident(to_camel_case(tileset.value.identifier))
           IN LayerTokens(layer,
                          IF ident.tag # "Ok" THEN ident
                          ELSE Ok([kind |-> "Tiles",
                                   tileset |-> <<"&tilesets::">> \o ident.value,
                                   tiles |-> [i \in 1..Len(layer.grid_tiles) |->
                                                 BuildTile(layer.grid_tiles[i])]]))
      [] layer.layer_instance_type = "AutoLayer" ->
           LayerTokens(layer, Ok([kind |-> "AutoLayer"]))
      [] OTHER -> LayerTokens(layer, Err(CompileError("Unknown layer kind")))

\* layers.iter().map(..).collect(): a panic unwinds, also after an error
\* was emitted for an earlier layer
RECURSIVE BuildLayerList(_, _)
BuildLayerList(instances, tileset_defs) ==
    IF instances = <<>> THEN Ok(<<>>)
    ELSE LET l == build_layer(Head(instances), tileset_defs)
             rest == BuildLayerList(Tail(instances), tileset_defs)
         IN IF l.tag = "Panic" THEN l
            ELSE IF rest.tag = "Panic" THEN rest
            ELSE IF l.tag # "Ok" THEN l
            ELSE IF rest.tag # "Ok" THEN rest
            ELSE Ok(<<l.value>> \o rest.value)

\* build_layers(layer_instances, tilesets)
build_layers(layer_instances, tileset_defs) ==
    IF layer_instances = None
    THEN Err(CompileError("Split level files are not yet supported"))
    ELSE BuildLayerList(layer_instances.value, tileset_defs)

LayerIdentifiers == {<<"G", "r", "o", "u", "n", "d">>, <<"f", "g", "_", "t", "i", "l", "e", "s">>}

\* the raw layers of the cases, with the identifier build_layers reads
Named(l, identifier) ==
    [f \in DOMAIN l \cup {"identifier"} |->
        IF f = "identifier" THEN identifier ELSE l[f]]

TilesetCaseLayers ==
    {Named(l, identifier) :
        l \in {l \in LayerInstances :
                  \/ l.layer_instance_type = "Tiles"
                  \/ /\ l.auto_layer_tiles = <<>>
                     /\ Len(l.int_grid_csv) <= 1
                     /\ l.entity_instances = <<>>},
        identifier \in LayerIdentifiers}

TilesetCaseDefs == RawTilesetLists \cup {<<RawTileset(7, <<"C">>), RawTileset(1, <<"A">>)>>}

InitTileset ==
    /\ ldtk \in [layer_instances : {None} \cup {Some(<<l>>) : l \in TilesetCaseLayers},
                 tilesets : TilesetCaseDefs]
    /\ pc = "layers"
    /\ result = NotRun
    /\ NoWorld

\* the run-time loader, Layer::load on the layer
LoadTilesLayer ==
    /\ pc = "layers"
    /\ ldtk.layer_instances # None
    /\ result' = LayerLoad(ldtk.layer_instances.value[1])
    /\ pc' = "Layer::load"
    /\ UNCHANGED <<ldtk, levels, tilesets, layer_definitions>>

\* the run-time loader, the tileset map World::deserialize_ldtk collects
\* once the layers have loaded; result keeps the loaded layer
LoadTilesetMap ==
    /\ pc = "Layer::load"
    /\ result.tag = "Ok"
    /\ LET loaded == CollectTilesets(ldtk.tilesets, <<>>)
       IN IF loaded.tag = "Ok"
          THEN /\ tilesets' = loaded.value
               /\ UNCHANGED result
          ELSE /\ result' = loaded
               /\ UNCHANGED tilesets
    /\ pc' = "tilesets"
    /\ UNCHANGED <<ldtk, levels, layer_definitions>>

BuildLayers ==
    /\ pc = "layers"
    /\ result' = build_layers(ldtk.layer_instances, ldtk.tilesets)
    /\ pc' = "build_layers"
    /\ UNCHANGED <<ldtk, levels, tilesets, layer_definitions>>

NextTileset == LoadTilesLayer \/ LoadTilesetMap \/ BuildLayers

SpecTileset == InitTileset /\ [][NextTileset]_vars

(***************************************************************************)
(* Specification SpecRows: reverse_row_wise applied, and applied again, to *)
(* a flat grid of row_length columns and hei rows.                         *)
(***************************************************************************)
GridCells == {0, 1, 2}

FlatGrids ==
    UNION {[list : [1..(w * h) -> GridCells], row_length : {w}, hei : {h}] :
              w \in 1..MaxWid, h \in 0..MaxHei}

InitRows ==
    /\ ldtk \in FlatGrids
    /\ pc = "grid"
    /\ result = NotRun
    /\ NoWorld

\* the lists computed so far, the last one being the current list
ReverseRows ==
    /\ pc = "grid"
    /\ result' = Ok(<<reverse_row_wise(ldtk.list, ldtk.row_length)>>)
    /\ pc' = "reversed once"
    /\ UNCHANGED <<ldtk, levels, tilesets, layer_definitions>>

ReverseRowsAgain ==
    /\ pc = "reversed once"
    /\ result' = Ok(Append(result.value,
                           reverse_row_wise(result.value[1], ldtk.row_length)))
    /\ pc' = "reversed twice"
    /\ UNCHANGED <<ldtk, levels, tilesets, layer_definitions>>

NextRows == ReverseRows \/ ReverseRowsAgain

SpecRows == InitRows /\ [][NextRows]_vars

(***************************************************************************)
(* Properties of Layer::load (under SpecLayer).                            *)
(***************************************************************************)
LayerLoaded == pc = "loaded"

LayerOk == LayerLoaded /\ result.tag = "Ok"

\* C1: for an IntGrid layer with c_wid = w >= 1, c_hei = h and a raw
\* int_grid_csv of length w*h, the loaded values are the raw rows in reverse
\* order, each row kept as it is: the value at output row r, column c is the
\* raw value at row h-1-r, column c.
C1_IntGridRowsReversed ==
    (/\ LayerLoaded
     /\ ldtk.layer_instance_type = "IntGrid"
     /\ ldtk.c_wid >= 1
     /\ Len(ldtk.int_grid_csv) = ldtk.c_wid * ldtk.c_hei)
    => /\ result.tag = "Ok"
       /\ result.value.special.kind = "IntGrid"
       /\ LET w == ldtk.c_wid
              h == ldtk.c_hei
              values == result.value.special.values
          IN /\ Len(values) = w * h
             /\ \A r \in 0..(h - 1) : \A c \in 0..(w - 1) :
                    values[r * w + c + 1] = ldtk.int_grid_csv[(h - 1 - r) * w + c + 1]

C1_Witness ==
    /\ LayerLoaded
    /\ ldtk.layer_instance_type = "IntGrid"
    /\ ldtk.c_wid = 2
    /\ ldtk.c_hei = 2
    /\ ldtk.int_grid_csv = <<1, 0, 0, 1>>
    /\ result.tag = "Ok"
    /\ result.value.special.values = <<0, 1, 1, 0>>

\* C4: a layer instance whose kind string is none of "IntGrid", "Entities",
\* "Tiles", "AutoLayer" makes Layer::load return UnknownLayerType carrying
\* that very string and no Layer; a layer of one of the four kinds never
\* ends in UnknownLayerType.
C4_UnknownKindRejected ==
    LayerLoaded =>
        IF ldtk.layer_instance_type \in KnownLayerKinds
        THEN ~(result.tag = "Err" /\ result.error.kind = "UnknownLayerType")
        ELSE /\ result.tag = "Err"
             /\ result.error.kind = "UnknownLayerType"
             /\ result.error.arg = ldtk.layer_instance_type

C4_Witness ==
    /\ LayerLoaded
    /\ ldtk.layer_instance_type = "intgrid"
    /\ result.tag = "Err"
    /\ result.error = [kind |-> "UnknownLayerType", arg |-> "intgrid"]

\* the row-major lists of a loaded layer paired with the raw lists they were
\* decoded from
GridLists ==
    LET s == result.value.special
    IN CASE s.kind = "IntGrid" ->
              {<<Len(s.values), Len(ldtk.int_grid_csv)>>,
               <<Len(s.auto_layer), Len(ldtk.auto_layer_tiles)>>}
         [] s.kind = "Tiles" -> {<<Len(s.tiles), Len(ldtk.grid_tiles)>>}
         [] s.kind = "AutoLayer" ->
              {<<Len(s.auto_layer), Len(ldtk.auto_layer_tiles)>>}
         [] OTHER -> {}

\* C10 as stated: in every loaded layer the IntGrid values and every tile
\* list has length exactly c_wid * c_hei.
C10_Original ==
    LayerOk => \A p \in GridLists : p[1] = ldtk.c_wid * ldtk.c_hei

\* C10 as amended: in every loaded layer the IntGrid values and every tile
\* list has exactly the length of the raw list it was decoded from, so it is
\* c_wid * c_hei exactly when the raw list has that length.
C10_ListLengthsKept ==
    LayerOk => \A p \in GridLists : p[1] = p[2]

C10_Witness ==
    /\ LayerOk
    /\ ldtk.layer_instance_type = "Tiles"
    /\ ldtk.c_wid = 2
    /\ ldtk.c_hei = 2
    /\ Len(ldtk.grid_tiles) = 1
    /\ Len(result.value.special.tiles) = 1

(***************************************************************************)
(* Properties of tile decoding (under SpecTile).                           *)
(***************************************************************************)
\* C2: for a flag field f in 0..3, tile decoding sets flip_x exactly when
\* bit 0 of f is set and flip_y exactly when bit 1 of f is set.
C2_FlipBits ==
    pc \in {"Tile::load", "build_layers"} =>
        /\ result.value.flip_x <=> (ldtk.tile.f \in {1, 3})
        /\ result.value.flip_y <=> (ldtk.tile.f \in {2, 3})

(***************************************************************************)
(* Properties of World::deserialize_ldtk (under SpecWorld).                *)
(***************************************************************************)
Returned == pc = "returned"

WellFormedColor(color) ==
    /\ Len(color) = 7
    /\ color[1] = "#"
    /\ \A i \in 2..7 : IsHexDigit(color[i])

\* the color literals of a document: level backgrounds and IntGrid values
DocumentColors(doc) ==
    {doc.levels[i].bg_color : i \in 1..Len(doc.levels)}
    \cup UNION {{doc.defs.layers[i].int_grid_values[j].color :
                    j \in 1..Len(doc.defs.layers[i].int_grid_values)} :
                i \in 1..Len(doc.defs.layers)}

SplitLevels(doc) == {i \in 1..Len(doc.levels) : doc.levels[i].layer_instances = None}

\* C3: a load ends either in a World with one loaded Level per document
\* level, in the document's order, or in one error; when a decode step of a
\* level returns an error the load returns that error.
C3_AllLevelsOrError ==
    Returned =>
        \/ /\ result.tag = "Ok"
           /\ Len(result.value.levels) = Len(ldtk.levels)
           /\ \A i \in 1..Len(ldtk.levels) :
                  Ok(result.value.levels[i]) = LevelLoad(ldtk.levels[i])
        \/ /\ result.tag = "Err"
           /\ \E i \in 1..Len(ldtk.levels) :
                  /\ result = LevelLoad(ldtk.levels[i])
                  /\ \A j \in 1..(i - 1) : LevelLoad(ldtk.levels[j]).tag = "Ok"

\* C5: a document with a level whose layer instances are absent (a project
\* saved as separate level files) ends the load in a returned error, never
\* in a World and never otherwise.  (Stated for documents whose colors are
\* all well formed: those are C8's case.)
C5_SplitProjectIsError ==
    (/\ Returned
     /\ SplitLevels(ldtk) # {}
     /\ \A c \in DocumentColors(ldtk) : WellFormedColor(c))
    => result.tag = "Err"

\* C8: a document with a level background color or an IntGrid value color
\* that is no well-formed #rrggbb literal ends the load in a returned error,
\* never in a World and never in a crash.  (Stated for documents all of whose
\* levels carry their layer instances: the others are C5's case.)
C8_MalformedColorIsError ==
    (/\ Returned
     /\ SplitLevels(ldtk) = {}
     /\ \E c \in DocumentColors(ldtk) : ~WellFormedColor(c))
    => result.tag = "Err"

\* C9: in a loaded World every layer whose layer_definition is a key of
\* world.layer_definitions carries the payload of the kind that definition
\* records.
C9_PayloadMatchesDefinition ==
    (Returned /\ result.tag = "Ok") =>
        \A i \in 1..Len(result.value.levels) :
            \A j \in 1..Len(result.value.levels[i].layers) :
                LET layer == result.value.levels[i].layers[j]
                    defs == result.value.layer_definitions
                IN layer.layer_definition \in DOMAIN defs =>
                       layer.special.kind = defs[layer.layer_definition].special.kind

(***************************************************************************)
(* Properties of color decoding (under SpecColor).                         *)
(***************************************************************************)
\* the two hex digits of a byte, as digit values
HexDigitsOf(byte) == <<byte \div 16, byte % 16>>

\* the six hex digits of a decoded color, as digit values
Reencode(c) == HexDigitsOf(c.r) \o HexDigitsOf(c.g) \o HexDigitsOf(c.b)

\* C7: every literal # followed by six hex digits is accepted, and its
\* decoded red, green and blue bytes written back as two hex digits each are
\* the six digits of the literal, letter case aside.
C7_ColorRoundTrip ==
    (pc \in {"color_from_str", "Color::hex"} /\ WellFormedColor(ldtk)) =>
        /\ result.tag = "Ok"
        /\ Reencode(result.value) = [i \in 1..6 |-> HexValue(ldtk[i + 1])]

(***************************************************************************)
(* Properties of field decoding (under SpecFields).                        *)
(***************************************************************************)
\* C6: a field declared not nullable whose instance carries no value makes
\* field decoding fail with a missing-field error; a null stands for an
\* absent value only when the field is declared nullable.
C6_MissingFieldRejected ==
    (pc = "build_fields" /\ ldtk.instance.value = None) =>
        IF ldtk.def.can_be_null
        THEN result.tag = "Ok" /\ result.value.value.tokens = "None"
        ELSE result.tag = "Err"

(***************************************************************************)
(* Properties of Level::load (under SpecLevel).                            *)
(***************************************************************************)
LevelOk == pc = "level loaded" /\ result.tag = "Ok"

\* the tiles of a loaded layer, whatever its kind
LoadedTiles(layer) ==
    CASE layer.special.kind = "IntGrid" -> layer.special.auto_layer
      [] layer.special.kind = "Tiles" -> layer.special.tiles
      [] layer.special.kind = "AutoLayer" -> layer.special.auto_layer
      [] OTHER -> <<>>

\* C11: every decoded position is the raw (x, y) mapped once to
\* (x, -y - extentY): the level's world position with the level's pixel
\* height, the layer's total offset with c_hei * grid_size, a tile's pixel
\* position with c_hei * grid_size of its layer and with nothing of the
\* layer's offset or the level's world position; x is kept.
C11_PositionsFlippedOnce ==
    LevelOk =>
        /\ result.value.world_position_px =
               <<ldtk.world_x, (0 - ldtk.world_y) - ldtk.px_hei>>
        /\ Len(result.value.layers) = Len(ldtk.layer_instances.value)
        /\ \A j \in 1..Len(result.value.layers) :
               LET raw == ldtk.layer_instances.value[j]
                   layer == result.value.layers[j]
                   extent == raw.c_hei * raw.grid_size
               IN /\ layer.total_offset_px =
                         <<raw.px_total_offset_x, (0 - raw.px_total_offset_y) - extent>>
                  /\ Len(LoadedTiles(layer)) = Len(RawTiles(raw))
                  /\ \A k \in 1..Len(RawTiles(raw)) :
                         \E n \in 1..Len(LoadedTiles(layer)) :
                             /\ LoadedTiles(layer)[n].id = RawTiles(raw)[k].t
                             /\ LoadedTiles(layer)[n].position_px =
                                    <<RawTiles(raw)[k].px[1],
                                      (0 - RawTiles(raw)[k].px[2]) - extent>>

C11_Witness ==
    /\ LevelOk
    /\ ldtk.world_x = 5
    /\ ldtk.world_y = 7
    /\ ldtk.px_hei = 32
    /\ result.value.world_position_px = <<5, 0 - 39>>
    /\ ldtk.layer_instances.value[1].px_total_offset_x = 2
    /\ ldtk.layer_instances.value[1].px_total_offset_y = 3
    /\ ldtk.layer_instances.value[1].c_hei = 2
    /\ ldtk.layer_instances.value[1].grid_size = 16
    /\ result.value.layers[1].total_offset_px = <<2, 0 - 35>>
    /\ ldtk.layer_instances.value[1].grid_tiles =
           <<PositionTile(8, 16, 0), PositionTile(0, 8, 1)>>
    /\ result.value.layers[1].special.tiles[2].position_px = <<8, 0 - 48>>
    /\ result.value.layers[1].special.tiles[1].position_px = <<0, 0 - 40>>

\* C18: a level with a background position loads background_position_px as
\* the pair (x, y) of the document's top-left pixel pair, x its first and y
\* its second component; a level without one loads none.
C18_BackgroundPosition ==
    LevelOk =>
        IF ldtk.bg_pos = None
        THEN result.value.background_position_px = None
        ELSE /\ result.value.background_position_px.tag = "Some"
             /\ result.value.background_position_px.value =
                    <<ldtk.bg_pos.value.top_left_px[1], ldtk.bg_pos.value.top_left_px[2]>>

(***************************************************************************)
(* Properties of tileset references (under SpecTileset).                   *)
(***************************************************************************)
\* a Tiles layer whose tileset id is absent or is the uid of no tileset
\* definition of the document
DanglingTilesLayer ==
    /\ ldtk.layer_instances # None
    /\ LET l == ldtk.layer_instances.value[1]
       IN /\ l.layer_instance_type = "Tiles"
          /\ \A i \in 1..Len(ldtk.tilesets) : Some(ldtk.tilesets[i].uid) # l.tileset_def_uid

\* a loaded layer keeps the id as it is, and the id is no key of the
\* World's tileset map
DanglingKept ==
    (pc = "tilesets" /\ DanglingTilesLayer) =>
        /\ result.tag = "Ok"
        /\ result.value.tileset_uid = ldtk.layer_instances.value[1].tileset_def_uid
        /\ result.value.special.kind = "Tiles"
        /\ result.value.special.tileset = ldtk.layer_instances.value[1].tileset_def_uid
        /\ \/ result.value.tileset_uid = None
           \/ result.value.tileset_uid.value \notin DOMAIN tilesets

\* C12 as stated: a Tiles layer with a dangling tileset id loads, the id
\* kept and the miss seen only as a failed lookup in the World's tileset
\* map; it is an error neither at load time nor at generation time.
C12_Original ==
    /\ (pc = "Layer::load" /\ DanglingTilesLayer) => result.tag = "Ok"
    /\ DanglingKept
    /\ (pc = "build_layers" /\ DanglingTilesLayer) => result.tag = "Ok"

\* C12 as amended: at run time Layer::load on such a layer panics in
\* chunks when c_wid = 0 and otherwise loads it, the id kept and the miss
\* seen only as a failed lookup in the World's tileset map; at generation
\* time build_layers reports the layer as the compile error
\* Could not find tileset for layer.
C12_DanglingTilesetLoadsNotBuilds ==
    /\ (pc = "Layer::load" /\ DanglingTilesLayer) =>
           IF ldtk.layer_instances.value[1].c_wid = 0
           THEN /\ result.tag = "Panic"
                /\ result.why = "chunks: chunk size must be non-zero"
           ELSE result.tag = "Ok"
    /\ DanglingKept
    /\ (pc = "build_layers" /\ DanglingTilesLayer) =>
           /\ result.tag = "Err"
           /\ result.error.kind = "CompileError"
           /\ result.error.arg = "Could not find tileset for layer"

C12_Witness ==
    /\ pc = "tilesets"
    /\ DanglingTilesLayer
    /\ ldtk.layer_instances.value[1].tileset_def_uid = Some(7)
    /\ ldtk.tilesets # <<>>
    /\ DOMAIN tilesets = {1}
    /\ result.tag = "Ok"
    /\ result.value.tileset_uid = Some(7)

(***************************************************************************)
(* Properties of the generator's field types and values (SpecFields).      *)
(***************************************************************************)
Defined == pc = "define_fields" /\ result.tag = "Ok"

\* C15: the emitted type is the base type of the declared kind, wrapped in a
\* sequence iff the field is an array, then wrapped in an optional iff
\* can_be_null: optional(sequence(base)) for a nullable array, the bare base
\* type for a field that is neither.
C15_WrappingOrder ==
    Defined =>
        LET kind == result.value.kind
            is_array == starts_with(ldtk.def.field_definition_type, ArrayPrefix)
            null == ldtk.def.can_be_null
            wraps == (IF null THEN <<"Option">> ELSE <<>>)
                       \o (IF is_array THEN <<"&'static []">> ELSE <<>>)
        IN /\ Len(kind) > Len(wraps)
           /\ SubSeq(kind, 1, Len(wraps)) = wraps
           /\ \A i \in (Len(wraps) + 1)..Len(kind) :
                 kind[i] \notin {"Option", "&'static []"}
           /\ ldtk.def.field_definition_type \in {KindInt, ArrayKind(KindInt)} =>
                 SubSeq(kind, Len(wraps) + 1, Len(kind)) = <<"i64">>
           /\ ldtk.def.field_definition_type \in {KindPoint, ArrayKind(KindPoint)} =>
                 SubSeq(kind, Len(wraps) + 1, Len(kind)) = <<"::bevy::math::Vec2">>

C15_Witness ==
    /\ Defined
    /\ ldtk.def.field_definition_type = ArrayKind(KindInt)
    /\ ldtk.def.can_be_null
    /\ ldtk.def.identifier = <<"M", "y", "F", "i", "e", "l", "d">>
    /\ result.value.name = <<"m", "y", "_", "f", "i", "e", "l", "d">>
    /\ result.value.kind = <<"Option", "&'static []", "i64">>

\* the value tokens build_fields emits are an expression of the type
ValueConforms(value, kind) ==
    CASE value.tokens = "None" -> kind[1] = "Option"
      [] value.tokens = "i64" -> kind = <<"i64">>
      [] value.tokens = "f64" -> kind = <<"f64">>
      [] value.tokens = "str" -> kind = <<"&'static str">>
      [] value.tokens = "bool" -> kind = <<"bool">>
      [] value.tokens = "Color::rgb" -> kind = <<"::bevy::render::color::Color">>
      [] OTHER -> FALSE

\* C13: for every kind, array or not, nullable or not, build_fields and
\* define_fields accept the same kind strings, and the value emitted for an
\* instance that carries a value (one build_fields can read) is of the type
\* emitted for its definition.
C13_ValueConformsToType ==
    (pc = "build_fields" /\ ldtk.instance.value # None /\ result.tag # "Panic") =>
        LET type == define_field(ldtk.def)
            unknown(r) == r.tag = "Err" /\ r.error.arg = "Could not parse kind"
        IN /\ unknown(result) <=> unknown(type)
           /\ (result.tag = "Ok" /\ type.tag = "Ok") =>
                 ValueConforms(result.value.value, type.value.kind)

\* the variants of the compiled enum of a LocalEnum kind
EnumVariants(kind) ==
    LET compiled == define_enums(EnumDefinitions).value
        name == to_camel_case(StrFrom(kind, Len(LocalEnumPrefix)))
        named == {i \in 1..Len(compiled) : compiled[i].ident = name}
    IN UNION {{compiled[i].fields[j] : j \in 1..Len(compiled[i].fields)} : i \in named}

\* C14: a LocalEnum field instance whose value is a string decodes to the
\* enum value of that name when the compiled enum has it, and is a decode
\* error otherwise.
C14_LocalEnumExactMatch ==
    (/\ pc = "build_fields"
     /\ starts_with(ldtk.instance.field_instance_type, LocalEnumPrefix)
     /\ ldtk.instance.value # None
     /\ ldtk.instance.value.value.json = "String") =>
        IF ldtk.instance.value.value.str \in EnumVariants(ldtk.instance.field_instance_type)
        THEN /\ result.tag = "Ok"
             /\ result.value.value.v = ldtk.instance.value.value.str
        ELSE result.tag \in {"Err", "Panic"}

(***************************************************************************)
(* Properties of reverse_row_wise (under SpecRows).                        *)
(***************************************************************************)
\* C16: on a flat grid of row_length >= 1 columns and hei rows, applying
\* reverse_row_wise twice gives the original list back, and applying it once
\* to a grid of one row leaves the list unchanged.
C16_RowReversalInvolution ==
    /\ pc = "reversed twice" => result.value[2] = ldtk.list
    /\ (pc = "reversed once" /\ ldtk.hei = 1) => result.value[1] = ldtk.list

C16_Witness ==
    /\ pc = "reversed twice"
    /\ ldtk.row_length = 2
    /\ ldtk.list = <<0, 1, 2, 0>>
    /\ result.value[1] = <<2, 0, 0, 1>>
    /\ result.value[2] = <<0, 1, 2, 0>>

(***************************************************************************)
(* Properties of the World's maps (under SpecWorld).                       *)
(***************************************************************************)
Uids(defs) == {defs[i].uid : i \in 1..Len(defs)}

\* C17: after a successful World load the tileset map has exactly the
\* distinct tileset-definition uids of the document as keys and the
\* layer-definition map the distinct layer-definition uids, and every entry's
\* id is the key it is stored under.
C17_MapsKeyedById ==
    (pc = "returned" /\ result.tag = "Ok") =>
        /\ DOMAIN result.value.tilesets = Uids(ldtk.defs.tilesets)
        /\ DOMAIN result.value.layer_definitions = Uids(ldtk.defs.layers)
        /\ \A k \in DOMAIN result.value.tilesets : result.value.tilesets[k].id = k
        /\ \A k \in DOMAIN result.value.layer_definitions :
              result.value.layer_definitions[k].id = k

C17_Witness ==
    /\ pc = "returned"
    /\ result.tag = "Ok"
    /\ Len(ldtk.defs.tilesets) = 2
    /\ ldtk.defs.tilesets[1].uid = ldtk.defs.tilesets[2].uid
    /\ DOMAIN result.value.tilesets = {1}
    /\ result.value.tilesets[1].id = 1
    /\ Len(ldtk.defs.layers) = 2
    /\ DOMAIN result.value.layer_definitions = {1, 2}
    /\ result.value.layer_definitions[2].id = 2

====
